---- MODULE Spec2Model ----
(***************************************************************************)
(* A model of the portfolio tracker: the persisted ledger document         *)
(* (portfolio.json), the commands that load, mutate and save it, the       *)
(* valuation computed by show / show_detailed, and the Robinhood adapter.  *)
(*                                                                         *)
(* Numbers.  Quantities, prices and the cash balance are whole numbers.    *)
(* One gram is 1/31.1034768 = OzNum/OzDen troy ounce, so every ounce       *)
(* amount and every money value computed from one is carried as an         *)
(* integer count of OzDen-ths: the value v is stored as v * OzDen.  This   *)
(* keeps the gram conversion exact.                                        *)
(***************************************************************************)
EXTENDS Integers, Sequences, FiniteSets, TLC

VARIABLES
    portfolio,  \* the persisted ledger document (PORTFOLIO_FILE)
    now,        \* the wall clock read by datetime.now(): the number of operations run so far
    last,       \* the last command run: its name, its locals at return, whether it saved
    out,        \* what the last command reported (show, show_detailed), else NoOutput
    rh,         \* the Robinhood adapter call in progress (get_portfolio_data)
    cmd         \* the command in progress between its load and the end of its save

vars == <<portfolio, now, last, out, rh, cmd>>

---------------------------------------------------------------------------
(* Bounds of the model *)

MaxCommands == 3    \* commands run one after the other, each at a later clock reading
MaxPositions == 2   \* open stock positions of the brokerage account

---------------------------------------------------------------------------
(* Values *)

\* Python's None is the empty sequence, a present value v is <<v>>
None == <<>>

Some(v) == <<v>>

Min(S) == CHOOSE x \in S : \A y \in S : x <= y

\* str.lower() on the strings the model uses
Lower(s) ==
    CASE s = "Bitcoin" -> "bitcoin"
      [] s = "BITCOIN" -> "bitcoin"
      [] s = "Ethereum" -> "ethereum"
      [] s = "G" -> "g"
      [] s = "Gram" -> "gram"
      [] s = "Grams" -> "grams"
      [] s = "GRAMS" -> "grams"
      [] s = "OZ" -> "oz"
      [] s = "Gold" -> "gold"
      [] OTHER -> s

\* str.strip() on the strings the model uses
Strip(s) ==
    CASE s = " bitcoin " -> "bitcoin"
      [] OTHER -> s

\* load_portfolio() when PORTFOLIO_FILE does not exist
EmptyPortfolio ==
    [crypto |-> <<>>,
     precious_metals |-> <<>>,
     other |-> <<>>,
     cash |-> [balance |-> 0, currency |-> "USD"]]

NoOutput == [kind |-> "none"]

\* no adapter call is in progress
RhIdle ==
    [pc |-> "idle", caller |-> "none", logged_in |-> FALSE, logout_calls |-> 0,
     logout_raised |-> FALSE, fetched |-> <<>>, positions |-> <<>>, normalized |-> <<>>,
     total_equity |-> 0, result |-> None]

\* no command is between its load and the end of its save.  op: the command that ran
\* last that way; before: the document it loaded; mem: its in-memory document;
\* written: how many sections of mem save_portfolio has written to the file
CmdIdle ==
    [pc |-> "idle", op |-> "none", before |-> EmptyPortfolio, mem |-> EmptyPortfolio,
     written |-> 0]

\* a command returned: its name, how it ended and whether it called save_portfolio
Returned(op, outcome, saved) ==
    [op |-> op, outcome |-> outcome, saved |-> saved, given |-> 0, idx |-> 0,
     new_qty |-> None, updated_count |-> 0]

\* crypto adjust returned: also the number of operation flags it was called with and
\* its locals idx and new_qty (None when the call returned before computing it)
ReturnedAdjust(outcome, saved, given, idx, new_qty) ==
    [op |-> "crypto_adjust", outcome |-> outcome, saved |-> saved, given |-> given,
     idx |-> idx, new_qty |-> new_qty, updated_count |-> 0]

\* a command can start: no other command is running (one process, one user), and the
\* run is not over
CanRun == rh.pc = "idle" /\ cmd.pc = "idle" /\ now < MaxCommands

RemoveAtMutant(s, i) == Tail(s)

\* list.pop(i) / del list[i], i counted from 1
RemoveAt(s, i) == [j \in 1..(Len(s) - 1) |-> IF j < i THEN s[j] ELSE s[j + 1]]

---------------------------------------------------------------------------
(* crypto add *)

CryptoHoldingMutant(found, quantity, avg_cost, fetched) ==
    [symbol |-> found[1].id,
     name |-> found[1].name,
     quantity |-> quantity,
     average_cost |-> avg_cost,
     current_price |-> IF fetched = None THEN 1 ELSE fetched[1],
     last_updated |-> now]

\* the holding record built by crypto add
CryptoHolding(found, quantity, avg_cost, fetched) ==
    [symbol |-> found[1].id,
     name |-> found[1].name,
     quantity |-> quantity,
     average_cost |-> avg_cost,
     current_price |-> IF fetched = None THEN 0 ELSE fetched[1],
     last_updated |-> now]

crypto_add_mutant(found, quantity, avg_cost, fetched) ==
    /\ CanRun
    /\ IF found = None
       THEN /\ UNCHANGED portfolio
            /\ last' = Returned("crypto_add", "not_found", TRUE)
       ELSE /\ portfolio' = [portfolio EXCEPT !.crypto =
                                Append(@, CryptoHolding(found, quantity, avg_cost, fetched))]
            /\ last' = Returned("crypto_add", "ok", TRUE)
    /\ out' = NoOutput
    /\ now' = now + 1
    /\ UNCHANGED <<rh, cmd>>

\* found: what search_crypto_id returned, None or <<[id, name]>>
\* fetched: what get_crypto_price returned, None or <<price>>
crypto_add(found, quantity, avg_cost, fetched) ==
    /\ CanRun
    /\ IF found = None
       THEN /\ UNCHANGED portfolio
            /\ last' = Returned("crypto_add", "not_found", FALSE)
       ELSE /\ portfolio' = [portfolio EXCEPT !.crypto =
                                Append(@, CryptoHolding(found, quantity, avg_cost, fetched))]
            /\ last' = Returned("crypto_add", "ok", TRUE)
    /\ out' = NoOutput
    /\ now' = now + 1
    /\ UNCHANGED <<rh, cmd>>

---------------------------------------------------------------------------
(* crypto remove *)

\* choice: the number typed at the prompt (1-based)
crypto_remove(choice) ==
    /\ CanRun
    /\ IF portfolio.crypto = <<>>
       THEN /\ UNCHANGED portfolio
            /\ last' = Returned("crypto_remove", "empty", FALSE)
       ELSE IF 0 <= choice - 1 /\ choice - 1 < Len(portfolio.crypto)
       THEN /\ portfolio' = [portfolio EXCEPT !.crypto = RemoveAt(@, choice)]
            /\ last' = Returned("crypto_remove", "ok", TRUE)
       ELSE /\ UNCHANGED portfolio
            /\ last' = Returned("crypto_remove", "invalid_selection", FALSE)
    /\ out' = NoOutput
    /\ now' = now + 1
    /\ UNCHANGED <<rh, cmd>>

---------------------------------------------------------------------------
(* crypto adjust *)

CryptoAdjustResolveMutant(holdings, symbol, choice) ==
    IF symbol # None /\ symbol # Some("")
    THEN LET s == Lower(Strip(symbol[1]))
             matches == {i \in 1..Len(holdings) :
                            \/ Lower(holdings[i].symbol) = s
                            \/ Lower(holdings[i].name) = s}
         IN  IF matches = {} THEN 0 ELSE CHOOSE i \in matches : \A j \in matches : j <= i
    ELSE IF 0 <= choice - 1 /\ choice - 1 < Len(holdings) THEN choice ELSE 0

\* the holding the call targets, as a 1-based index; 0 when none is resolved
CryptoAdjustResolve(holdings, symbol, choice) ==
    IF symbol # None /\ symbol # Some("")
    THEN LET s == Lower(Strip(symbol[1]))
             matches == {i \in 1..Len(holdings) :
                            \/ Lower(holdings[i].symbol) = s
                            \/ Lower(holdings[i].name) = s}
         IN  IF matches = {} THEN 0 ELSE Min(matches)
    ELSE IF 0 <= choice - 1 /\ choice - 1 < Len(holdings) THEN choice ELSE 0

\* sum(ops): how many of --set, --add, --subtract were given
OpsGiven(set_qty, add_qty, sub_qty) ==
    (IF set_qty # None THEN 1 ELSE 0) + (IF add_qty # None THEN 1 ELSE 0)
        + (IF sub_qty # None THEN 1 ELSE 0)

OpsConflictMutant(set_qty, add_qty, sub_qty) ==
    OpsGiven(set_qty, add_qty, sub_qty) > 2

\* sum(ops) > 1
OpsConflict(set_qty, add_qty, sub_qty) ==
    OpsGiven(set_qty, add_qty, sub_qty) > 1

\* new_qty; op and amount are the answers to the prompts when no flag is given
CryptoAdjustNewQty(current_qty, set_qty, add_qty, sub_qty, op, amount) ==
    IF OpsGiven(set_qty, add_qty, sub_qty) = 0
    THEN IF op = "set" THEN amount
         ELSE IF op = "add" THEN current_qty + amount
         ELSE current_qty - amount
    ELSE IF set_qty # None THEN set_qty[1]
         ELSE IF add_qty # None THEN current_qty + add_qty[1]
         ELSE current_qty - sub_qty[1]

QuantityRejectedMutant(new_qty) == new_qty < -1

\* if new_qty < 0: reject
QuantityRejected(new_qty) == new_qty < 0

crypto_adjust(symbol, choice, set_qty, add_qty, sub_qty, op, amount) ==
    LET holdings == portfolio.crypto
        idx == CryptoAdjustResolve(holdings, symbol, choice)
        current_qty == holdings[idx].quantity
        new_qty == CryptoAdjustNewQty(current_qty, set_qty, add_qty, sub_qty, op, amount)
        given == OpsGiven(set_qty, add_qty, sub_qty)
    IN
    /\ CanRun
    /\ IF holdings = <<>>
       THEN /\ UNCHANGED portfolio
            /\ last' = ReturnedAdjust("empty", FALSE, given, 0, None)
       ELSE IF idx = 0
       THEN /\ UNCHANGED portfolio
            /\ last' = ReturnedAdjust(IF symbol # None /\ symbol # Some("")
                                      THEN "not_found" ELSE "invalid_selection",
                                      FALSE, given, 0, None)
       ELSE IF OpsConflict(set_qty, add_qty, sub_qty)
       THEN /\ UNCHANGED portfolio
            /\ last' = ReturnedAdjust("conflict", FALSE, given, idx, None)
       ELSE IF QuantityRejected(new_qty)
       THEN /\ UNCHANGED portfolio
            /\ last' = ReturnedAdjust("negative", FALSE, given, idx, Some(new_qty))
       ELSE /\ portfolio' = [portfolio EXCEPT !.crypto[idx].quantity = new_qty,
                                              !.crypto[idx].last_updated = now]
            /\ last' = ReturnedAdjust("ok", TRUE, given, idx, Some(new_qty))
    /\ out' = NoOutput
    /\ now' = now + 1
    /\ UNCHANGED <<rh, cmd>>

---------------------------------------------------------------------------
(* metal spot price *)

PreciousMetalsMutant == {"silver", "platinum", "palladium"}

\* ['gold', 'silver', 'platinum', 'palladium']
PreciousMetals == {"gold", "silver", "platinum", "palladium"}

\* symbol_map.get(metal_type.lower())
MetalSymbol(metal_type) ==
    CASE Lower(metal_type) = "gold" -> Some("XAU")
      [] Lower(metal_type) = "silver" -> Some("XAG")
      [] Lower(metal_type) = "platinum" -> Some("XPT")
      [] Lower(metal_type) = "palladium" -> Some("XPD")
      [] OTHER -> None

\* api_key: the key found in the environment or the configuration, "" when there is none
\* response: what the request to the price service produced, [status, price] with status
\* "ok", "network_error", "http_error", "no_price" (no price in the body) or "bad_price"
\* (float() fails)
get_metals_price(metal_type, api_key, response) ==
    IF MetalSymbol(metal_type) = None THEN None
    ELSE IF api_key = "" THEN None
    ELSE IF response.status # "ok" THEN None
    ELSE Some(response.price)

\* Python truth of an optional number: None and 0 are false
Truthy(v) == v # None /\ v[1] # 0

\* one call of get_metals_price, with what it was given and what it returned
get_metals_price_call(metal_type, api_key, response) ==
    /\ CanRun
    /\ last' = Returned("get_metals_price", "ok", FALSE)
    /\ out' = [kind |-> "get_metals_price", metal_type |-> metal_type, api_key |-> api_key,
               response |-> response,
               result |-> get_metals_price(metal_type, api_key, response)]
    /\ now' = now + 1
    /\ UNCHANGED <<portfolio, rh, cmd>>

---------------------------------------------------------------------------
(* hard-assets add *)

asset_types == <<"gold", "silver", "platinum", "palladium", "other">>

\* str.title() on the asset types
Title(s) ==
    CASE s = "gold" -> "Gold"
      [] s = "silver" -> "Silver"
      [] s = "platinum" -> "Platinum"
      [] s = "palladium" -> "Palladium"
      [] OTHER -> s

\* choice: the number typed at the type menu; typed_name, typed_type: the answers to the
\* two prompts of "other"; manual: the price typed when no spot price was fetched, or the
\* market value typed for an asset that is no precious metal
hard_assets_add(choice, typed_name, typed_type, quantity, unit, avg_cost, api_key, response, manual) ==
    LET picked == asset_types[choice]
        asset_type == IF picked = "other" THEN typed_type ELSE picked
        asset_name == IF picked = "other" THEN typed_name ELSE Title(picked)
        spot == get_metals_price(asset_type, api_key, response)
        current_price ==
            IF asset_type \in PreciousMetals
            THEN IF Truthy(spot) THEN spot[1] ELSE manual
            ELSE manual
        asset_data ==
            [name |-> asset_name,
             type |-> asset_type,
             unit |-> unit,
             quantity |-> quantity,
             average_cost |-> avg_cost,
             current_spot_price |-> current_price,
             last_updated |-> now]
    IN
    /\ CanRun
    /\ IF choice - 1 < 0 \/ choice - 1 >= Len(asset_types)
       THEN /\ UNCHANGED portfolio
            /\ last' = Returned("hard_assets_add", "invalid_choice", FALSE)
       ELSE /\ portfolio' =
                IF asset_type \in PreciousMetals
                THEN [portfolio EXCEPT !.precious_metals = Append(@, asset_data)]
                ELSE [portfolio EXCEPT !.other = Append(@, asset_data)]
            /\ last' = Returned("hard_assets_add", "ok", TRUE)
    /\ out' = NoOutput
    /\ now' = now + 1
    /\ UNCHANGED <<rh, cmd>>

---------------------------------------------------------------------------
(* hard-assets remove *)

\* x in list
Contains(s, x) == \E i \in 1..Len(s) : s[i] = x

\* list.remove(x): drops the first element equal to x
RemoveFirst(s, x) == RemoveAt(s, Min({i \in 1..Len(s) : s[i] = x}))

hard_assets_remove(choice) ==
    LET all_assets == portfolio.precious_metals \o portfolio.other
        asset_to_remove == all_assets[choice]
    IN
    /\ CanRun
    /\ IF all_assets = <<>>
       THEN /\ UNCHANGED portfolio
            /\ last' = Returned("hard_assets_remove", "empty", FALSE)
       ELSE IF 0 <= choice - 1 /\ choice - 1 < Len(all_assets)
       THEN /\ portfolio' =
                IF Contains(portfolio.precious_metals, asset_to_remove)
                THEN [portfolio EXCEPT !.precious_metals = RemoveFirst(@, asset_to_remove)]
                ELSE [portfolio EXCEPT !.other = RemoveFirst(@, asset_to_remove)]
            /\ last' = Returned("hard_assets_remove", "ok", TRUE)
       ELSE /\ UNCHANGED portfolio
            /\ last' = Returned("hard_assets_remove", "invalid_selection", FALSE)
    /\ out' = NoOutput
    /\ now' = now + 1
    /\ UNCHANGED <<rh, cmd>>

---------------------------------------------------------------------------
(* hard-assets update *)

UpdatedAssetMutant(asset, api_key, response) ==
    LET new_price == get_metals_price(asset.type, api_key, response)
    IN  IF asset.type \in PreciousMetals /\ Truthy(new_price)
        THEN [asset EXCEPT !.current_spot_price = new_price[1], !.last_updated = now]
        ELSE [asset EXCEPT !.last_updated = now]

\* one pass of the loop body over a precious-metal holding
UpdatedAsset(asset, api_key, response) ==
    LET new_price == get_metals_price(asset.type, api_key, response)
    IN  IF asset.type \in PreciousMetals /\ Truthy(new_price)
        THEN [asset EXCEPT !.current_spot_price = new_price[1], !.last_updated = now]
        ELSE asset

\* the loop over the precious-metal holdings
MetalsUpdated(metals, api_key, responses) ==
    [i \in 1..Len(metals) |-> UpdatedAsset(metals[i], api_key, responses[i])]

\* what get_metals_price returned for each holding of the loop: None when it was not
\* called for the holding, else <<what it returned>>
MetalsFetched(metals, api_key, responses) ==
    [i \in 1..Len(metals) |->
        IF metals[i].type \in PreciousMetals
        THEN Some(get_metals_price(metals[i].type, api_key, responses[i]))
        ELSE None]

UpdatedCountMutant(metals, api_key, responses) == Len(metals)

\* updated_count at the end of the loop
UpdatedCount(metals, api_key, responses) ==
    Cardinality({i \in 1..Len(metals) :
        /\ metals[i].type \in PreciousMetals
        /\ Truthy(get_metals_price(metals[i].type, api_key, responses[i]))})

hard_assets_update_mutant(api_key, responses) ==
    LET all_assets == portfolio.precious_metals \o portfolio.other
        metals == portfolio.precious_metals
    IN
    /\ CanRun
    /\ IF all_assets = <<>>
       THEN /\ UNCHANGED portfolio
            /\ last' = Returned("hard_assets_update", "empty", FALSE)
            /\ out' = NoOutput
       ELSE /\ portfolio' = [portfolio EXCEPT
                                !.precious_metals = MetalsUpdated(metals, api_key, responses),
                                !.other = [i \in 1..Len(portfolio.other) |->
                                              [portfolio.other[i] EXCEPT !.last_updated = now]]]
            /\ last' = [Returned("hard_assets_update", "ok", TRUE) EXCEPT !.updated_count =
                            UpdatedCount(metals, api_key, responses)]
            /\ out' = [kind |-> "hard_assets_update",
                       fetched |-> MetalsFetched(metals, api_key, responses)]
    /\ now' = now + 1
    /\ UNCHANGED <<rh, cmd>>

\* responses[i]: what the price service answers to the request for the i-th holding
hard_assets_update(api_key, responses) ==
    LET all_assets == portfolio.precious_metals \o portfolio.other
        metals == portfolio.precious_metals
    IN
    /\ CanRun
    /\ IF all_assets = <<>>
       THEN /\ UNCHANGED portfolio
            /\ last' = Returned("hard_assets_update", "empty", FALSE)
            /\ out' = NoOutput
       ELSE /\ portfolio' = [portfolio EXCEPT !.precious_metals =
                                MetalsUpdated(metals, api_key, responses)]
            /\ last' = [Returned("hard_assets_update", "ok", TRUE) EXCEPT !.updated_count =
                            UpdatedCount(metals, api_key, responses)]
            /\ out' = [kind |-> "hard_assets_update",
                       fetched |-> MetalsFetched(metals, api_key, responses)]
    /\ now' = now + 1
    /\ UNCHANGED <<rh, cmd>>

---------------------------------------------------------------------------
(* update *)

\* the commands registered in each group of the command tree
CommandsOf(group) ==
    CASE group = "crypto" -> {"add", "remove", "adjust"}
      [] group = "hard-assets" -> {"add", "remove", "update"}
      [] group = "assets" -> {}
      [] group = "equities" -> {"show"}
      [] group = "cash" -> {"show", "update"}
      [] OTHER -> {}

\* the exit status of "python3 portfolio_tracker.py <group> <name>": click ends with
\* status 2 on a command it does not know
ExitStatus(group, name) == IF name \in CommandsOf(group) THEN 0 ELSE 2

\* the ledger file after os.system("python3 portfolio_tracker.py <group> <name>") ran on
\* the ledger file p
RunSubcommand(p, group, name, api_key, responses) ==
    IF name \notin CommandsOf(group) THEN p
    ELSE IF group = "hard-assets" /\ name = "update"
    THEN [p EXCEPT !.precious_metals = MetalsUpdated(@, api_key, responses)]
    ELSE p

\* crypto_prices[i]: what get_crypto_price would return for the i-th crypto holding;
\* responses[i]: what the price service would answer for the i-th precious-metal holding
update(crypto_prices, api_key, responses) ==
    LET after_crypto == RunSubcommand(portfolio, "crypto", "update", api_key, responses)
        after_assets == RunSubcommand(after_crypto, "assets", "update", api_key, responses)
    IN
    /\ CanRun
    /\ portfolio' = after_assets
    /\ last' = Returned("update", "ok", FALSE)
    /\ out' = [kind |-> "update",
               statuses |-> <<ExitStatus("crypto", "update"), ExitStatus("assets", "update")>>,
               crypto_prices |-> crypto_prices,
               spot |-> [i \in 1..Len(portfolio.precious_metals) |->
                            get_metals_price(portfolio.precious_metals[i].type, api_key,
                                             responses[i])]]
    /\ now' = now + 1
    /\ UNCHANGED <<rh, cmd>>

---------------------------------------------------------------------------
(* cash update *)

\* delta, subtract: --add and --subtract; op, amt: the answers to the prompts when
\* neither is given
CashChangeMutant(delta, subtract, op, amt) ==
    IF delta = None /\ subtract = None
    THEN IF op = "add" THEN amt ELSE -amt
    ELSE IF delta # None THEN delta[1] ELSE -subtract[1]

CashChange(delta, subtract, op, amt) ==
    IF delta = None /\ subtract = None
    THEN IF op = "add" THEN amt ELSE -amt
    ELSE (IF delta # None THEN delta[1] ELSE 0) - (IF subtract # None THEN subtract[1] ELSE 0)

cash_update(delta, subtract, op, amt) ==
    /\ CanRun
    /\ portfolio' = [portfolio EXCEPT !.cash.balance =
                        @ + CashChange(delta, subtract, op, amt)]
    /\ last' = Returned("cash_update", "ok", TRUE)
    /\ out' = NoOutput
    /\ now' = now + 1
    /\ UNCHANGED <<rh, cmd>>

---------------------------------------------------------------------------
(* load_portfolio and save_portfolio, step by step *)

\* the sections of the document in the order json.dump writes them
Sections == <<"crypto", "precious_metals", "other", "cash">>

\* the file after json.dump has written the first k sections of doc
FilePrefix(doc, k) ==
    IF k = Len(Sections) THEN doc
    ELSE [f \in {Sections[i] : i \in 1..k} |-> doc[f]]

\* json.load returns a document: the file holds all of one
Loadable(file) == DOMAIN file = {Sections[i] : i \in 1..Len(Sections)}

\* a mutation command up to its call of save_portfolio: it loads the file and changes
\* the document in memory, to mem.  A file json.load cannot parse ends the command
CommandBegin(op, mem) ==
    /\ CanRun
    /\ IF Loadable(portfolio)
       THEN /\ cmd' = [pc |-> "mutated", op |-> op, before |-> portfolio, mem |-> mem,
                       written |-> 0]
            /\ UNCHANGED <<now, last>>
       ELSE /\ last' = Returned(op, "load_failed", FALSE)
            /\ now' = now + 1
            /\ UNCHANGED cmd
    /\ out' = NoOutput
    /\ UNCHANGED <<portfolio, rh>>

\* cash update, from load_portfolio to the assignment of the balance
cash_update_begin(delta, subtract, op, amt) ==
    CommandBegin("cash_update",
                 IF Loadable(portfolio)
                 THEN [portfolio EXCEPT !.cash.balance = @ + CashChange(delta, subtract, op, amt)]
                 ELSE portfolio)

\* crypto add, from load_portfolio to the append of the holding (search found the coin)
crypto_add_begin(found, quantity, avg_cost, fetched) ==
    CommandBegin("crypto_add",
                 IF Loadable(portfolio)
                 THEN [portfolio EXCEPT !.crypto =
                          Append(@, CryptoHolding(found, quantity, avg_cost, fetched))]
                 ELSE portfolio)

\* save_portfolio: open(PORTFOLIO_FILE, 'w') truncates the file
save_open ==
    /\ cmd.pc = "mutated"
    /\ cmd' = [cmd EXCEPT !.pc = "writing", !.written = 0]
    /\ portfolio' = FilePrefix(cmd.mem, 0)
    /\ UNCHANGED <<now, last, out, rh>>

\* save_portfolio: json.dump writes the next section
save_write ==
    /\ cmd.pc = "writing"
    /\ cmd.written < Len(Sections)
    /\ cmd' = [cmd EXCEPT !.written = @ + 1]
    /\ portfolio' = FilePrefix(cmd.mem, cmd.written + 1)
    /\ UNCHANGED <<now, last, out, rh>>

\* save_portfolio: the with block closes the complete file and the command returns
save_close ==
    /\ cmd.pc = "writing"
    /\ cmd.written = Len(Sections)
    /\ cmd' = [cmd EXCEPT !.pc = "idle"]
    /\ last' = Returned(cmd.op, "ok", TRUE)
    /\ now' = now + 1
    /\ UNCHANGED <<portfolio, out, rh>>

\* the user interrupts the command (KeyboardInterrupt): the command ends where it is;
\* a file open for writing is closed with what was written so far
interrupt ==
    /\ cmd.pc \in {"mutated", "writing"}
    /\ cmd' = [cmd EXCEPT !.pc = "idle"]
    /\ last' = Returned(cmd.op, "interrupted", cmd.pc = "writing")
    /\ now' = now + 1
    /\ UNCHANGED <<portfolio, out, rh>>

---------------------------------------------------------------------------
(* Robinhood adapter: get_portfolio_data *)

\* the result dict
RhResult(positions, total_equity, error) ==
    [positions |-> positions, total_equity |-> total_equity, error |-> error]

\* the adapter between two calls of the robin_stocks library.  logged_in: r.login
\* returned; logout_calls: how often r.logout was called; logout_raised: r.logout raised;
\* fetched: the list get_open_stock_positions returned; positions: what the loop has yet
\* to iterate
RhState(pc, caller, logged_in, logout_calls, positions, normalized, total_equity, result) ==
    [pc |-> pc, caller |-> caller, logged_in |-> logged_in, logout_calls |-> logout_calls,
     logout_raised |-> FALSE, fetched |-> <<>>, positions |-> positions,
     normalized |-> normalized,
     total_equity |-> total_equity, result |-> result]

\* a caller (show, equities show) calls get_portfolio_data.  installed: robin_stocks can
\* be imported; have_creds: username, password and account number are all set
get_portfolio_data(caller, installed, have_creds) ==
    /\ CanRun
    /\ rh' = IF ~installed
             THEN RhState("returned", caller, FALSE, 0, <<>>, <<>>, 0,
                          Some(RhResult(<<>>, 0, "robin-stocks not installed")))
             ELSE IF ~have_creds
             THEN RhState("returned", caller, FALSE, 0, <<>>, <<>>, 0,
                          Some(RhResult(<<>>, 0, "missing_credentials")))
             ELSE RhState("login", caller, FALSE, 0, <<>>, <<>>, 0, None)
    /\ UNCHANGED <<portfolio, now, last, out, cmd>>

\* r.login(...): returns, or raises
rh_login(ok) ==
    /\ rh.pc = "login"
    /\ rh' = IF ok
             THEN [rh EXCEPT !.pc = "get_open_stock_positions", !.logged_in = TRUE]
             ELSE [rh EXCEPT !.pc = "returned",
                             !.result = Some(RhResult(<<>>, 0, "login_or_fetch_failed"))]
    /\ UNCHANGED <<portfolio, now, last, out, cmd>>

AfterLoopMutant(positions) == "logout"

\* leaving the try/finally around the loop: with nothing left to iterate the finally
\* clause is next
AfterLoop(positions) == IF positions = <<>> THEN "logout" ELSE "position"

\* r.account.get_open_stock_positions(...): fetched is None when it raises, else
\* <<the positions>>
rh_get_open_stock_positions(fetched) ==
    /\ rh.pc = "get_open_stock_positions"
    /\ rh' = IF fetched = None
             THEN [rh EXCEPT !.pc = "returned",
                             !.result = Some(RhResult(<<>>, 0, "login_or_fetch_failed"))]
             ELSE [rh EXCEPT !.pc = AfterLoop(fetched[1]), !.fetched = fetched[1],
                             !.positions = fetched[1]]
    /\ UNCHANGED <<portfolio, now, last, out, cmd>>

\* one iteration of the loop over the positions.  A raw position p carries what the
\* lookups for it give: p.symbol (None: get_symbol_by_url raises), p.quantity,
\* p.latest (None: no latest price, float() raises)
rh_position ==
    /\ rh.pc = "position"
    /\ LET p == Head(rh.positions)
           rest == Tail(rh.positions)
           equity == p.quantity * p.latest[1]
       IN  rh' = IF p.symbol = None \/ p.latest = None
                 THEN [rh EXCEPT !.pc = AfterLoop(rest), !.positions = rest]
                 ELSE [rh EXCEPT !.pc = AfterLoop(rest), !.positions = rest,
                                 !.total_equity = @ + equity,
                                 !.normalized = Append(@,
                                     [symbol |-> p.symbol[1], quantity |-> p.quantity,
                                      price |-> p.latest[1], equity |-> equity])]
    /\ UNCHANGED <<portfolio, now, last, out, cmd>>

\* finally: r.logout(), which returns or raises (swallowed); then the result is returned
rh_logout(ok) ==
    /\ rh.pc = "logout"
    /\ rh' = [rh EXCEPT !.pc = "returned", !.logout_calls = @ + 1,
                        !.logout_raised = ~ok,
                        !.result = Some(RhResult(rh.normalized, rh.total_equity, "None"))]
    /\ UNCHANGED <<portfolio, now, last, out, cmd>>

\* equities show: prints the result it was given
equities_show ==
    /\ rh.pc = "returned"
    /\ rh.caller = "equities_show"
    /\ last' = Returned("equities_show", "ok", FALSE)
    /\ out' = [kind |-> "equities_show", rh_data |-> rh.result[1]]
    /\ rh' = RhIdle
    /\ now' = now + 1
    /\ UNCHANGED <<portfolio, cmd>>

---------------------------------------------------------------------------
(* show *)

\* 31.1034768 = OzDen / OzNum
OzNum == 625000

OzDen == 19439673

\* a whole amount, counted in OzDen-ths
Whole(x) == x * OzDen

\* ounces, counted in OzDen-ths
convert_to_ounces(quantity, unit) ==
    IF Lower(unit) \in {"g", "gram", "grams"}
    THEN quantity * OzNum
    ELSE Whole(quantity)

\* a quantity as the fraction num / den
Ratio(num, den) == [num |-> num, den |-> den]

convert_to_ounces_exact_mutant(quantity, unit) ==
    IF unit \in {"g", "gram", "grams"}
    THEN Ratio(quantity.num * OzNum, quantity.den * OzDen)
    ELSE quantity

\* convert_to_ounces on a quantity that is a fraction: 1 / 31.1034768 = OzNum / OzDen
convert_to_ounces_exact(quantity, unit) ==
    IF Lower(unit) \in {"g", "gram", "grams"}
    THEN Ratio(quantity.num * OzNum, quantity.den * OzDen)
    ELSE quantity

\* a call of convert_to_ounces; the call and what it returned are recorded in out
convert_to_ounces_call(quantity, unit) ==
    /\ CanRun
    /\ last' = Returned("convert_to_ounces", "ok", FALSE)
    /\ out' = [kind |-> "convert_to_ounces", quantity |-> quantity, unit |-> unit,
               result |-> convert_to_ounces_exact(quantity, unit)]
    /\ now' = now + 1
    /\ UNCHANGED <<portfolio, rh, cmd>>

RECURSIVE Sum(_)
Sum(s) == IF s = <<>> THEN 0 ELSE Head(s) + Sum(Tail(s))

crypto_value(p) ==
    Sum([i \in 1..Len(p.crypto) |->
            Whole(p.crypto[i].quantity * p.crypto[i].current_price)])

metals_value(p) ==
    Sum([i \in 1..Len(p.precious_metals) |->
            convert_to_ounces(p.precious_metals[i].quantity, p.precious_metals[i].unit)
                * p.precious_metals[i].current_spot_price])

other_value_mutant(p) ==
    Sum([i \in 1..Len(p.other) |->
            convert_to_ounces(p.other[i].quantity, p.other[i].unit)
                * p.other[i].current_spot_price])

other_value(p) ==
    Sum([i \in 1..Len(p.other) |->
            Whole(p.other[i].quantity * p.other[i].current_spot_price)])

hard_assets_value(p) == metals_value(p) + other_value(p)

rh_total(rh_data) == Whole(rh_data.total_equity)

cash_value(p) == Whole(p.cash.balance)

total_value_mutant(p, rh_data) ==
    crypto_value(p) + hard_assets_value(p) + rh_total(rh_data)

total_value(p, rh_data) ==
    crypto_value(p) + hard_assets_value(p) + rh_total(rh_data) + cash_value(p)

\* if <value> > 0: rows.append(...)
RowShown(value) == value > 0

Row(label, count, value) == [label |-> label, count |-> count, value |-> value]

\* the rows in the order they are appended
Rows(p, rh_data) ==
    (IF RowShown(rh_total(rh_data))
     THEN <<Row("Robinhood", Len(rh_data.positions), rh_total(rh_data))>> ELSE <<>>)
    \o (IF RowShown(cash_value(p)) THEN <<Row("Cash", 1, cash_value(p))>> ELSE <<>>)
    \o (IF RowShown(crypto_value(p))
        THEN <<Row("Cryptocurrency", Len(p.crypto), crypto_value(p))>> ELSE <<>>)
    \o (IF RowShown(hard_assets_value(p))
        THEN <<Row("Hard Assets", Len(p.precious_metals) + Len(p.other),
                   hard_assets_value(p))>>
        ELSE <<>>)

KeyGreaterMutant(r1, r2, total) ==
    CASE total > 0 -> r1.value >= r2.value
      [] total < 0 -> r1.value <= r2.value
      [] OTHER -> FALSE

\* the sort keys (r[2] / total_value) if total_value else 0 of two rows compared: both
\* are fractions over the same total
KeyGreater(r1, r2, total) ==
    CASE total > 0 -> r1.value > r2.value
      [] total < 0 -> r1.value < r2.value
      [] OTHER -> FALSE

\* r put into the sorted rows s after every row whose key is not smaller
RECURSIVE InsertRow(_, _, _)
InsertRow(s, r, total) ==
    IF s = <<>> THEN <<r>>
    ELSE IF KeyGreater(r, Head(s), total) THEN <<r>> \o s
    ELSE <<Head(s)>> \o InsertRow(Tail(s), r, total)

\* rows.sort(key=..., reverse=True): stable, largest key first
RECURSIVE SortRows(_, _)
SortRows(rows, total) ==
    IF rows = <<>> THEN <<>>
    ELSE InsertRow(SortRows(SubSeq(rows, 1, Len(rows) - 1), total), rows[Len(rows)], total)

\* if total_value > 0: the summary table is built
TableShown(total) == total > 0

PnlCellMutant(value, cost_basis) ==
    IF cost_basis >= 0 THEN Some(value - cost_basis) ELSE None

\* P&L cell of a detail row: None is "N/A"
PnlCell(value, cost_basis) ==
    IF cost_basis > 0 THEN Some(value - cost_basis) ELSE None

CryptoDetail(h) ==
    LET value == Whole(h.quantity * h.current_price)
        cost_basis == Whole(h.quantity * h.average_cost)
    IN  [name |-> h.name, value |-> value, cost_basis |-> cost_basis,
         pnl |-> PnlCell(value, cost_basis)]

HardAssetDetail(asset) ==
    LET value == convert_to_ounces(asset.quantity, asset.unit) * asset.current_spot_price
        cost_basis == Whole(asset.quantity * asset.average_cost)
    IN  [name |-> asset.name, value |-> value, cost_basis |-> cost_basis,
         pnl |-> PnlCell(value, cost_basis)]

\* the tables of holdings show_detailed prints
show_detailed(p, rh_data) ==
    LET all_hard_assets == p.precious_metals \o p.other
    IN  [balance |-> p.cash.balance,
         positions |-> rh_data.positions,
         crypto |-> [i \in 1..Len(p.crypto) |-> CryptoDetail(p.crypto[i])],
         hard_assets |-> [i \in 1..Len(all_hard_assets) |->
                             HardAssetDetail(all_hard_assets[i])]]

\* show, from the return of get_robinhood_portfolio on.  detail: the answer to "Show
\* detailed breakdown?"
show(detail) ==
    LET rh_data == rh.result[1]
        total == total_value(portfolio, rh_data)
    IN
    /\ rh.pc = "returned"
    /\ rh.caller = "show"
    /\ last' = Returned("show", "ok", FALSE)
    /\ out' = [kind |-> "show",
               rh_data |-> rh_data,
               total_value |-> total,
               divided |-> TableShown(total),
               rows |-> IF TableShown(total)
                        THEN SortRows(Rows(portfolio, rh_data), total) ELSE <<>>,
               detailed |-> IF TableShown(total) /\ detail
                            THEN Some(show_detailed(portfolio, rh_data)) ELSE None]
    /\ rh' = RhIdle
    /\ now' = now + 1
    /\ UNCHANGED <<portfolio, cmd>>

---------------------------------------------------------------------------
(* Inputs *)

\* what search_crypto_id can return
SearchResults ==
    {None, Some([id |-> "bitcoin", name |-> "Bitcoin"]),
           Some([id |-> "ethereum", name |-> "Ethereum"])}

\* quantities typed at a prompt (click float: any sign)
Quantities == {-1, 0, 1, 2}

\* what get_crypto_price can return
CryptoPrices == {None, Some(1)}

\* --symbol values
AdjustSymbols == {None, Some("BITCOIN"), Some("Ethereum"), Some("doge")}

\* numbers typed at a selection prompt
Choices == 0..3

\* --set / --add / --subtract values and prompted amounts
Amounts == {-1, 2}

Flags == {None} \cup {Some(a) : a \in Amounts}

\* <<--set, --add, --subtract>> of one call: none or one of them with any amount, and
\* calls that give two or three of them
AdjustFlags ==
    {f \in Flags \X Flags \X Flags : OpsGiven(f[1], f[2], f[3]) <= 1}
        \cup {<<Some(2), None, Some(2)>>, <<Some(2), Some(2), None>>,
              <<None, Some(-1), Some(2)>>, <<Some(-1), Some(2), Some(2)>>}

\* numbers typed at the asset type menu
HardChoices == {0, 1, 5, 6}

\* asset types typed for "other"
TypedTypes == {"copper", "gold", "Gold"}

Units == {"oz", "g"}

ApiKeys == {"", "key"}

\* what the metal price service can answer
MetalResponses ==
    {[status |-> "ok", price |-> 2], [status |-> "network_error", price |-> 0]}

\* prices typed at a prompt
ManualPrices == {0, 1}

\* metal types a caller can pass to get_metals_price
MetalTypes == {"gold", "Gold", "silver", "platinum", "palladium", "copper"}

\* every way the request to the price service can end
FetchOutcomes ==
    {[status |-> "ok", price |-> 1], [status |-> "ok", price |-> 2]}
        \cup {[status |-> st, price |-> 0] :
                 st \in {"network_error", "http_error", "no_price", "bad_price"}}

\* --add / --subtract of cash update
CashFlags == {None, Some(1), Some(2)}

\* raw positions get_open_stock_positions can return
RawPositions ==
    [symbol : {None, Some("AAPL")}, quantity : {1, 2}, latest : {None, Some(1)}]

RECURSIVE SeqsUpTo(_, _)
SeqsUpTo(S, n) ==
    IF n = 0 THEN {<<>>}
    ELSE LET shorter == SeqsUpTo(S, n - 1)
         IN  shorter \cup {Append(q, x) : q \in shorter, x \in S}

\* a ledger file left by earlier commands (crypto add, cash update)
SavedLedger ==
    [EmptyPortfolio EXCEPT
        !.crypto = <<[symbol |-> "bitcoin", name |-> "Bitcoin", quantity |-> 1,
                      average_cost |-> 0, current_price |-> 1, last_updated |-> 0]>>,
        !.cash.balance = 1]

\* a ledger file left by earlier add commands, run before the clock reading 0: two
\* crypto holdings, a precious metal, two other hard assets and cash
StockedLedger ==
    [crypto |-> <<[symbol |-> "bitcoin", name |-> "Bitcoin", quantity |-> 1,
                   average_cost |-> 0, current_price |-> 1, last_updated |-> -1],
                  [symbol |-> "ethereum", name |-> "Ethereum", quantity |-> 2,
                   average_cost |-> 0, current_price |-> 1, last_updated |-> -1]>>,
     precious_metals |-> <<[name |-> "Gold", type |-> "gold", unit |-> "oz", quantity |-> 1,
                            average_cost |-> 0, current_spot_price |-> 1,
                            last_updated |-> -1]>>,
     other |-> <<[name |-> "Bar", type |-> "copper", unit |-> "oz", quantity |-> 1,
                  average_cost |-> 0, current_spot_price |-> 1, last_updated |-> -1],
                 [name |-> "Bar", type |-> "copper", unit |-> "g", quantity |-> 2,
                  average_cost |-> 0, current_spot_price |-> 1, last_updated |-> -1]>>,
     cash |-> [balance |-> 1, currency |-> "USD"]]

Init ==
    /\ portfolio = EmptyPortfolio
    /\ now = 0
    /\ last = Returned("none", "ok", FALSE)
    /\ out = NoOutput
    /\ rh = RhIdle
    /\ cmd = CmdIdle

CryptoAddStep ==
    \E found \in SearchResults, quantity \in Quantities, fetched \in CryptoPrices :
        crypto_add(found, quantity, 0, fetched)

CryptoRemoveStep == \E choice \in Choices : crypto_remove(choice)

CryptoAdjustStep ==
    \E symbol \in AdjustSymbols, flags \in AdjustFlags :
        \E choice \in IF symbol = None THEN Choices ELSE {0} :
            \E op \in IF flags = <<None, None, None>>
                       THEN {"set", "add", "subtract"} ELSE {"add"} :
                \E amount \in IF flags = <<None, None, None>> THEN Amounts ELSE {0} :
                    crypto_adjust(symbol, choice, flags[1], flags[2], flags[3], op, amount)

HardAssetsAddStep ==
    \E choice \in HardChoices, quantity \in {-1, 1}, unit \in Units, manual \in ManualPrices :
        \E typed_type \in IF choice = 5 THEN TypedTypes ELSE {"copper"} :
            \E api_key \in IF choice = 1 \/ typed_type = "gold" THEN ApiKeys ELSE {""} :
                \E response \in IF api_key = "" THEN {[status |-> "network_error", price |-> 0]}
                                 ELSE MetalResponses :
                    hard_assets_add(choice, "Bar", typed_type, quantity, unit, 0,
                                    api_key, response, manual)

HardAssetsRemoveStep == \E choice \in Choices : hard_assets_remove(choice)

HardAssetsUpdateStep ==
    \E api_key \in ApiKeys :
        \E responses \in IF api_key = ""
                          THEN {[i \in 1..Len(portfolio.precious_metals) |->
                                    [status |-> "network_error", price |-> 0]]}
                          ELSE [1..Len(portfolio.precious_metals) -> MetalResponses] :
            hard_assets_update(api_key, responses)

CashUpdateStep ==
    \E delta \in CashFlags, subtract \in CashFlags :
        \E op \in IF delta = None /\ subtract = None THEN {"add", "subtract"} ELSE {"add"} :
            \E amt \in IF delta = None /\ subtract = None THEN {1} ELSE {0} :
                cash_update(delta, subtract, op, amt)

\* every command that changes the ledger
Next ==
    \/ CryptoAddStep
    \/ CryptoRemoveStep
    \/ CryptoAdjustStep
    \/ HardAssetsAddStep
    \/ HardAssetsRemoveStep
    \/ HardAssetsUpdateStep
    \/ CashUpdateStep

Spec == Init /\ [][Next]_vars

NextCrypto == CryptoAddStep \/ CryptoRemoveStep \/ CryptoAdjustStep

SpecCrypto == Init /\ [][NextCrypto]_vars

\* the adapter's library calls, with any list of open positions
RhLoginStep == \E ok \in BOOLEAN : rh_login(ok)

RhGetPositionsStep ==
    \E fetched \in {None} \cup {Some(ps) : ps \in SeqsUpTo(RawPositions, MaxPositions)} :
        rh_get_open_stock_positions(fetched)

RhLogoutStep == \E ok \in BOOLEAN : rh_logout(ok)

EquitiesShowBegin ==
    \E installed \in BOOLEAN, have_creds \in BOOLEAN :
        get_portfolio_data("equities_show", installed, have_creds)

NextRh ==
    \/ EquitiesShowBegin
    \/ RhLoginStep
    \/ RhGetPositionsStep
    \/ rh_position
    \/ RhLogoutStep
    \/ equities_show

SpecRh == Init /\ [][NextRh]_vars

\* the hard-assets commands, on a new ledger and on one that has crypto and cash
InitHard ==
    /\ portfolio \in {EmptyPortfolio, SavedLedger}
    /\ now = 0
    /\ last = Returned("none", "ok", FALSE)
    /\ out = NoOutput
    /\ rh = RhIdle
    /\ cmd = CmdIdle

HardAddStep ==
    \E choice \in {0, 1, 2, 5} :
        \E typed_type \in IF choice = 5 THEN TypedTypes ELSE {"copper"} :
            \E api_key \in IF choice \in {1, 2} \/ typed_type = "gold" THEN ApiKeys ELSE {""} :
                \E response \in IF api_key = "" THEN {[status |-> "network_error", price |-> 0]}
                                 ELSE MetalResponses :
                    hard_assets_add(choice, "Bar", typed_type, 1, "oz", 0,
                                    api_key, response, 1)

NextHard == HardAddStep \/ HardAssetsRemoveStep \/ HardAssetsUpdateStep

SpecHard == InitHard /\ [][NextHard]_vars

\* crypto add with every search result, quantity and price fetch outcome
NextAdd == CryptoAddStep

SpecAdd == Init /\ [][NextAdd]_vars

\* the two remove commands, on a new ledger and on one with holdings of every kind
InitRemove ==
    /\ portfolio \in {EmptyPortfolio, StockedLedger}
    /\ now = 0
    /\ last = Returned("none", "ok", FALSE)
    /\ out = NoOutput
    /\ rh = RhIdle
    /\ cmd = CmdIdle

\* numbers typed at the selection prompt of a remove command
RemoveChoices == -1..4

RemoveCryptoStep == \E choice \in RemoveChoices : crypto_remove(choice)

RemoveHardAssetsStep == \E choice \in RemoveChoices : hard_assets_remove(choice)

RemoveCryptoAddStep ==
    crypto_add(Some([id |-> "bitcoin", name |-> "Bitcoin"]), 1, 0, Some(1))

RemoveHardAssetsAddStep ==
    \E choice \in {1, 5} :
        hard_assets_add(choice, "Bar", "copper", 1, "oz", 0, "",
                        [status |-> "network_error", price |-> 0], 1)

NextRemove ==
    \/ RemoveCryptoStep
    \/ RemoveHardAssetsStep
    \/ RemoveCryptoAddStep
    \/ RemoveHardAssetsAddStep

SpecRemove == InitRemove /\ [][NextRemove]_vars

\* cash update with every combination of flags, on a new ledger and on one with holdings
NextCash == CashUpdateStep \/ RemoveCryptoAddStep

SpecCash == InitRemove /\ [][NextCash]_vars

\* runs of cash updates given by their flags <<--add, --subtract>>, one at least present
CashRuns ==
    UNION {[1..n -> {f \in CashFlags \X CashFlags : f # <<None, None>>}] : n \in 0..MaxCommands}

\* the balance after a run of cash updates that starts with the balance current
RECURSIVE BalanceAfter(_, _)
BalanceAfter(current, run) ==
    IF run = <<>>
    THEN current
    ELSE BalanceAfter(current + CashChange(run[1][1], run[1][2], "add", 0), Tail(run))

\* crypto adjust on ledgers that hold crypto, a hard asset and cash
AdjustCryptoAddStep ==
    \E found \in SearchResults \ {None} : crypto_add(found, 1, 1, Some(1))

AdjustHardAssetsAddStep ==
    hard_assets_add(1, "Bar", "copper", 1, "oz", 0, "",
                    [status |-> "network_error", price |-> 0], 1)

\* the calls of crypto adjust, <<--symbol, selection, --set, --add, --subtract, operation
\* prompt, amount prompt>>: by text or by list position, with no flag, one or two
AdjustCalls ==
    LET flags == {<<None, None, None>>, <<Some(2), None, None>>, <<None, Some(2), None>>,
                  <<None, None, Some(2)>>, <<None, Some(-1), None>>,
                  <<Some(2), None, Some(2)>>}
        all == {<<symbol, choice, f[1], f[2], f[3], op, amount>> :
                   symbol \in {None, Some("BITCOIN"), Some("doge")}, choice \in 0..2,
                   f \in flags, op \in {"set", "add", "subtract"}, amount \in Amounts}
    IN  {c \in all :
            /\ c[1] # None => c[2] = 0
            /\ <<c[3], c[4], c[5]>> # <<None, None, None>> => (c[6] = "add" /\ c[7] = 2)}

AdjustCallStep ==
    \E c \in AdjustCalls : crypto_adjust(c[1], c[2], c[3], c[4], c[5], c[6], c[7])

NextAdjust == AdjustCryptoAddStep \/ AdjustHardAssetsAddStep \/ AdjustCallStep

SpecAdjust == InitHard /\ [][NextAdjust]_vars

\* mutation commands run step by step, with a user who can interrupt them
SaveCashUpdateStep ==
    \E delta \in {None, Some(1)}, subtract \in {None, Some(2)} :
        cash_update_begin(delta, subtract, "add", 1)

SaveCryptoAddStep ==
    \E quantity \in {1, 2} :
        crypto_add_begin(Some([id |-> "bitcoin", name |-> "Bitcoin"]), quantity, 0, Some(1))

NextSave ==
    \/ SaveCashUpdateStep
    \/ SaveCryptoAddStep
    \/ save_open
    \/ save_write
    \/ save_close
    \/ interrupt

SpecSave == Init /\ [][NextSave]_vars

\* the top-level update on ledgers with crypto and precious-metal holdings
UpdateCryptoAddStep ==
    \E found \in SearchResults \ {None}, fetched \in CryptoPrices :
        crypto_add(found, 1, 0, fetched)

UpdateHardAssetsAddStep ==
    \E choice \in {1, 2, 5}, manual \in ManualPrices :
        hard_assets_add(choice, "Bar", "copper", 1, "oz", 0, "",
                        [status |-> "network_error", price |-> 0], manual)

UpdateStep ==
    \E crypto_prices \in [1..Len(portfolio.crypto) -> CryptoPrices], api_key \in ApiKeys :
        \E responses \in [1..Len(portfolio.precious_metals) -> MetalResponses] :
            update(crypto_prices, api_key, responses)

NextUpdate == UpdateCryptoAddStep \/ UpdateHardAssetsAddStep \/ UpdateStep

SpecUpdate == Init /\ [][NextUpdate]_vars

\* the metal spot lookup on its own, on every metal type, credential and fetch outcome
MetalsPriceStep ==
    \E metal_type \in MetalTypes, api_key \in ApiKeys, response \in FetchOutcomes :
        get_metals_price_call(metal_type, api_key, response)

NextMetals == MetalsPriceStep

SpecMetals == Init /\ [][NextMetals]_vars

\* unit strings convert_to_ounces is called with
UnitSpellings ==
    {"g", "G", "gram", "Gram", "grams", "Grams", "GRAMS", "oz", "OZ", "kg", "lb", ""}

\* convert_to_ounces on a whole quantity
ConvertStep ==
    \E quantity \in -1..2, unit \in UnitSpellings :
        convert_to_ounces_call(Ratio(quantity, 1), unit)

\* convert_to_ounces on the quantity the last call returned, now counted in ounces
ConvertAgainStep ==
    /\ out.kind = "convert_to_ounces"
    /\ out.result.den \in {1, OzDen}
    /\ \E unit \in {"oz", "OZ", "kg"} : convert_to_ounces_call(out.result, unit)

NextConvert == ConvertStep \/ ConvertAgainStep

SpecConvert == Init /\ [][NextConvert]_vars

\* show on ledgers built by a few kinds of add and cash update
ShowCryptoAddStep ==
    \E quantity \in {0, 2}, avg_cost \in {0, 1}, fetched \in {None, Some(2)} :
        crypto_add(Some([id |-> "bitcoin", name |-> "Bitcoin"]), quantity, avg_cost, fetched)

ShowHardAssetsAddStep ==
    \E choice \in {1, 5}, quantity \in {0, 1}, unit \in {"oz", "g"}, avg_cost \in {0, 1} :
        hard_assets_add(choice, "Bar", "copper", quantity, unit, avg_cost, "",
                        [status |-> "network_error", price |-> 0], 2)

ShowCashUpdateStep ==
    \E delta \in {None, Some(1)}, subtract \in {None, Some(1)} :
        \E op \in IF delta = None /\ subtract = None THEN {"add", "subtract"} ELSE {"add"} :
            cash_update(delta, subtract, op, 1)

ShowBegin ==
    \E installed \in BOOLEAN, have_creds \in BOOLEAN :
        get_portfolio_data("show", installed, have_creds)

ShowGetPositionsStep ==
    \E fetched \in {None, Some(<<>>),
                   Some(<<[symbol |-> Some("AAPL"), quantity |-> 1, latest |-> Some(1)]>>),
                   Some(<<[symbol |-> Some("AAPL"), quantity |-> 2, latest |-> None]>>)} :
        rh_get_open_stock_positions(fetched)

ShowStep == \E detail \in BOOLEAN : show(detail)

NextShow ==
    \/ ShowCryptoAddStep
    \/ ShowHardAssetsAddStep
    \/ ShowCashUpdateStep
    \/ ShowBegin
    \/ RhLoginStep
    \/ ShowGetPositionsStep
    \/ rh_position
    \/ RhLogoutStep
    \/ ShowStep

SpecShow == Init /\ [][NextShow]_vars

\* show without the brokerage, on ledgers whose holdings are counted in ounces and in
\* grams
ValueCryptoAddStep ==
    \E quantity \in {1, 2}, fetched \in {None, Some(2)} :
        crypto_add(Some([id |-> "bitcoin", name |-> "Bitcoin"]), quantity, 1, fetched)

ValueHardAssetsAddStep ==
    \E choice \in {1, 5}, quantity \in {1, 2}, unit \in {"oz", "g", "Grams"} :
        hard_assets_add(choice, "Bar", "copper", quantity, unit, 1, "",
                        [status |-> "network_error", price |-> 0], 2)

ValueShowBegin == get_portfolio_data("show", FALSE, FALSE)

NextValue ==
    \/ ValueCryptoAddStep
    \/ ValueHardAssetsAddStep
    \/ ValueShowBegin
    \/ ShowStep

SpecValue == Init /\ [][NextValue]_vars

---------------------------------------------------------------------------
(* Crypto adjust: rejections *)

\* C2: a crypto adjust whose computed new quantity is negative is rejected: the
\* persisted ledger (every holding's quantity and timestamp) is the same before and
\* after the call, and the call does not save.
C2_NegativeAdjustRejected ==
    [][(last'.op = "crypto_adjust" /\ now' # now
            /\ last'.new_qty # None /\ last'.new_qty[1] < 0)
        => (portfolio' = portfolio /\ ~last'.saved)]_vars

\* a crypto adjust computed a negative quantity for a holding and returned
C2_Witness ==
    /\ last.op = "crypto_adjust"
    /\ last.outcome = "negative"
    /\ last.new_qty # None /\ last.new_qty[1] < 0
    /\ last.idx \in 1..Len(portfolio.crypto)
    /\ portfolio.crypto[last.idx].quantity >= 0

\* C3: a crypto adjust called with more than one of --set, --add, --subtract does
\* not change the persisted ledger and does not save.
C3_ConflictingFlagsRejected ==
    [][(last'.op = "crypto_adjust" /\ now' # now /\ last'.given > 1)
        => (portfolio' = portfolio /\ ~last'.saved)]_vars

\* a crypto adjust with two or more flags reached its flag check on a resolved holding
C3_Witness ==
    /\ last.op = "crypto_adjust"
    /\ last.given > 1
    /\ last.outcome = "conflict"
    /\ last.idx \in 1..Len(portfolio.crypto)

\* the first holding whose identifier or display name is the text, letter case apart;
\* 0 when there is none
FirstMatch(holdings, text) ==
    LET matches == {i \in 1..Len(holdings) :
                       \/ Lower(holdings[i].symbol) = Lower(text)
                       \/ Lower(holdings[i].name) = Lower(text)}
    IN  IF matches = {} THEN 0 ELSE Min(matches)

\* what a crypto adjust call has to do: with a text no holding matches, nothing; with
\* a target (the first match of the text, or the selected list position), exactly one
\* operation and a result of at least 0, store the result and the time in the target
\* and change nothing else
AdjustEffect(symbol, choice, set_qty, add_qty, sub_qty, op, amount) ==
    LET holdings == portfolio.crypto
        target == IF symbol # None THEN FirstMatch(holdings, symbol[1])
                  ELSE IF choice \in 1..Len(holdings) THEN choice ELSE 0
        old == holdings[target].quantity
        one_op == Cardinality({k \in 1..3 : <<set_qty, add_qty, sub_qty>>[k] # None}) <= 1
        result ==
            CASE set_qty # None -> set_qty[1]
              [] add_qty # None -> old + add_qty[1]
              [] sub_qty # None -> old - sub_qty[1]
              [] op = "set" -> amount
              [] op = "add" -> old + amount
              [] OTHER -> old - amount
    IN  /\ (symbol # None /\ target = 0) => portfolio' = portfolio
        /\ (target # 0 /\ one_op /\ result >= 0)
              => /\ portfolio'.crypto[target] =
                       [holdings[target] EXCEPT !.quantity = result, !.last_updated = now]
                 /\ Len(portfolio'.crypto) = Len(holdings)
                 /\ \A i \in 1..Len(holdings) :
                       i # target => portfolio'.crypto[i] = holdings[i]
                 /\ portfolio'.precious_metals = portfolio.precious_metals
                 /\ portfolio'.other = portfolio.other
                 /\ portfolio'.cash = portfolio.cash
                 /\ last'.saved

\* C21: a crypto adjust with exactly one of set v / add v / subtract v and a result of
\* at least 0 stores v, old + v or old - v in the target holding, sets its
\* last_updated to the time of the call and leaves its other fields, the other
\* holdings, the hard assets and the cash position as they were; the target is the
\* first holding whose identifier or name is the given text, letter case apart; a text
\* that matches no holding changes nothing.
C21_AdjustStoresAndFrames ==
    [][\A c \in AdjustCalls :
          crypto_adjust(c[1], c[2], c[3], c[4], c[5], c[6], c[7])
              => AdjustEffect(c[1], c[2], c[3], c[4], c[5], c[6], c[7])]_vars

\* an adjust changed the first of two holdings with the same identifier, on a ledger
\* with a hard asset and cash, at a later time than the holding was stored
C21_Witness ==
    /\ last.op = "crypto_adjust" /\ last.outcome = "ok"
    /\ last.idx = 1
    /\ Len(portfolio.crypto) = 2
    /\ portfolio.crypto[1].symbol = portfolio.crypto[2].symbol
    /\ portfolio.crypto[1].quantity = 2
    /\ portfolio.crypto[1].last_updated = now - 1
    /\ portfolio.crypto[2].last_updated < now - 1
    /\ portfolio.cash.balance # 0
    /\ portfolio.precious_metals # <<>>

\* C9: no two holdings of the crypto category have the same identifier.
C9_UniqueCryptoSymbols ==
    \A i, j \in 1..Len(portfolio.crypto) :
        portfolio.crypto[i].symbol = portfolio.crypto[j].symbol => i = j

---------------------------------------------------------------------------
(* Quantities *)

\* C1: every crypto holding and every hard-asset holding of the ledger has a
\* quantity of at least 0.
C1_QuantitiesNonNegative ==
    /\ \A i \in 1..Len(portfolio.crypto) : portfolio.crypto[i].quantity >= 0
    /\ \A i \in 1..Len(portfolio.precious_metals) : portfolio.precious_metals[i].quantity >= 0
    /\ \A i \in 1..Len(portfolio.other) : portfolio.other[i].quantity >= 0

---------------------------------------------------------------------------
(* show: totals and breakdown *)

\* the subtotal of the category a row label stands for
Subtotal(label) ==
    CASE label = "Robinhood" -> Whole(out.rh_data.total_equity)
      [] label = "Cash" -> Whole(portfolio.cash.balance)
      [] label = "Cryptocurrency" -> crypto_value(portfolio)
      [] label = "Hard Assets" -> metals_value(portfolio) + other_value(portfolio)

Categories == {"Robinhood", "Cash", "Cryptocurrency", "Hard Assets"}

RowsOf(label) == {i \in 1..Len(out.rows) : out.rows[i].label = label}

\* C4: whenever show computes a grand total above 0, the allocation fractions
\* value / total of the rows it reports sum to 1, that is, the row values sum to the
\* grand total.
C4_AllocationsSumToOne ==
    (last.op = "show" /\ out.total_value > 0)
        => Sum([i \in 1..Len(out.rows) |-> out.rows[i].value]) = out.total_value

\* C5: the grand total show computes is the crypto subtotal plus the hard-assets
\* subtotal (precious metals plus other) plus the cash balance plus the total equity
\* of the equities snapshot.
C5_GrandTotalIsSumOfSubtotals ==
    last.op = "show"
        => out.total_value = Subtotal("Cryptocurrency") + Subtotal("Hard Assets")
                                + Subtotal("Cash") + Subtotal("Robinhood")

\* show ran with equities, a cash balance and a hard asset held in grams, each with a
\* subtotal other than 0
C5_Witness ==
    /\ last.op = "show"
    /\ Subtotal("Robinhood") # 0
    /\ Subtotal("Cash") # 0
    /\ Subtotal("Hard Assets") # 0
    /\ \E i \in 1..Len(portfolio.precious_metals) : portfolio.precious_metals[i].unit = "g"

\* C6: when show reports a positive grand total, it has built exactly one row for
\* every category whose subtotal is not 0, negative ones included, and no row for a
\* category whose subtotal is 0.
C6_OneRowPerNonzeroCategory ==
    (last.op = "show" /\ out.total_value > 0)
        => \A c \in Categories :
              Cardinality(RowsOf(c)) = IF Subtotal(c) # 0 THEN 1 ELSE 0

\* C7: the breakdown show reports is empty, with no division by the grand total,
\* exactly when the grand total is 0.
C7_EmptyBreakdownIffZeroTotal ==
    last.op = "show"
        => ((out.rows = <<>> /\ ~out.divided) <=> out.total_value = 0)

\* the place of a category in the enumeration equities, cash, crypto, hard assets
Rank(label) ==
    CASE label = "Robinhood" -> 1
      [] label = "Cash" -> 2
      [] label = "Cryptocurrency" -> 3
      [] label = "Hard Assets" -> 4

\* C20: the rows show reports are in descending order of allocation value / total, and
\* rows of equal allocation are in the order equities, cash, crypto, hard assets.
C20_RowsSortedStable ==
    (last.op = "show" /\ out.divided)
        => \A i, j \in 1..Len(out.rows) :
              i < j => \/ out.rows[i].value > out.rows[j].value
                       \/ /\ out.rows[i].value = out.rows[j].value
                          /\ Rank(out.rows[i].label) < Rank(out.rows[j].label)

\* show reported three rows: one that the sort moved ahead of rows appended before it,
\* and two of equal allocation
C20_Witness ==
    /\ last.op = "show" /\ out.divided
    /\ Len(out.rows) = 3
    /\ \E i, j \in 1..3 : i < j /\ Rank(out.rows[i].label) > Rank(out.rows[j].label)
    /\ \E i, j \in 1..3 : i < j /\ out.rows[i].value = out.rows[j].value

\* C10: in the detailed view every crypto holding and every hard-asset holding with
\* average_cost > 0 and quantity >= 0 has the numeric P&L value - quantity *
\* average_cost, not "N/A".
C10_PnlNumericWhenCostKnown ==
    (last.op = "show" /\ out.detailed # None)
        => LET d == out.detailed[1]
               hard == portfolio.precious_metals \o portfolio.other
           IN  /\ \A i \in 1..Len(portfolio.crypto) :
                     (portfolio.crypto[i].average_cost > 0 /\ portfolio.crypto[i].quantity >= 0)
                        => d.crypto[i].pnl =
                              Some(d.crypto[i].value
                                   - Whole(portfolio.crypto[i].quantity
                                           * portfolio.crypto[i].average_cost))
               /\ \A i \in 1..Len(hard) :
                     (hard[i].average_cost > 0 /\ hard[i].quantity >= 0)
                        => d.hard_assets[i].pnl =
                              Some(d.hard_assets[i].value
                                   - Whole(hard[i].quantity * hard[i].average_cost))

\* C11: in the detailed view every crypto holding and every hard-asset holding whose
\* average_cost is 0 has the P&L "N/A", never a number, whatever its quantity and its
\* current price.
C11_PnlNotApplicableWithoutCost ==
    (last.op = "show" /\ out.detailed # None)
        => LET d == out.detailed[1]
               hard == portfolio.precious_metals \o portfolio.other
           IN  /\ \A i \in 1..Len(portfolio.crypto) :
                     portfolio.crypto[i].average_cost = 0 => d.crypto[i].pnl = None
               /\ \A i \in 1..Len(hard) :
                     hard[i].average_cost = 0 => d.hard_assets[i].pnl = None

\* the detailed view listed a crypto holding and a hard asset, both with average_cost 0,
\* a quantity above 0 and a price above 0
C11_Witness ==
    /\ last.op = "show" /\ out.detailed # None
    /\ \E i \in 1..Len(portfolio.crypto) :
          /\ portfolio.crypto[i].average_cost = 0
          /\ portfolio.crypto[i].quantity > 0
          /\ portfolio.crypto[i].current_price > 0
          /\ out.detailed[1].crypto[i].value > 0
    /\ \E i \in 1..Len(portfolio.precious_metals) :
          /\ portfolio.precious_metals[i].average_cost = 0
          /\ portfolio.precious_metals[i].quantity > 0
          /\ out.detailed[1].hard_assets[i].value > 0

---------------------------------------------------------------------------
(* hard-assets update *)

\* C14: in a hard-assets update pass, every precious-metal holding whose spot-price
\* fetch returns no price has the same current_spot_price and the same last_updated
\* after the pass as before it.
C14_FailedFetchKeepsHolding ==
    [][(last'.op = "hard_assets_update" /\ now' # now /\ last'.outcome = "ok")
        => \A i \in 1..Len(portfolio.precious_metals) :
              out'.fetched[i] = Some(None)
                 => /\ portfolio'.precious_metals[i].current_spot_price
                          = portfolio.precious_metals[i].current_spot_price
                    /\ portfolio'.precious_metals[i].last_updated
                          = portfolio.precious_metals[i].last_updated]_vars

\* a pass in which one holding's fetch failed and another's succeeded; the holding
\* whose fetch failed was stored by an earlier command
C14_Witness ==
    /\ last.op = "hard_assets_update" /\ last.outcome = "ok"
    /\ \E i, j \in 1..Len(portfolio.precious_metals) :
          /\ out.fetched[i] = Some(None)
          /\ portfolio.precious_metals[i].last_updated < now - 1
          /\ out.fetched[j] # Some(None) /\ out.fetched[j] # None
          /\ portfolio.precious_metals[j].last_updated = now - 1

C16_UpdateTouchesOnlyMetals ==
    [][(last'.op = "hard_assets_update" /\ now' # now)
        => /\ portfolio'.other = portfolio.other
           /\ portfolio'.crypto = portfolio.crypto
           /\ portfolio'.cash = portfolio.cash
           /\ Len(portfolio'.precious_metals) = Len(portfolio.precious_metals)
           /\ \A i \in 1..Len(portfolio.precious_metals) :
                 [portfolio'.precious_metals[i] EXCEPT
                     !.current_spot_price = 0, !.last_updated = 0]
                   = [portfolio.precious_metals[i] EXCEPT
                         !.current_spot_price = 0, !.last_updated = 0]]_vars

\* a pass that stored a new price, on a ledger with crypto, cash and an "other" holding
C16_Witness ==
    /\ last.op = "hard_assets_update" /\ last.updated_count >= 1
    /\ portfolio.other # <<>>
    /\ portfolio.crypto # <<>>
    /\ portfolio.cash.balance # 0
    /\ \E i \in 1..Len(portfolio.precious_metals) :
          portfolio.precious_metals[i].last_updated = now - 1

---------------------------------------------------------------------------
(* hard assets: the two categories *)

\* every precious-metal holding is tagged gold, silver, platinum or palladium and no
\* "other" holding is
TagsMatchCategory ==
    /\ \A i \in 1..Len(portfolio.precious_metals) :
          portfolio.precious_metals[i].type \in {"gold", "silver", "platinum", "palladium"}
    /\ \A i \in 1..Len(portfolio.other) :
          portfolio.other[i].type \notin {"gold", "silver", "platinum", "palladium"}

\* a step that files a new holding files it by its tag; no step takes a holding out of
\* one sequence and puts one into the other; no step changes a tag
FiledByTag ==
    LET metals == portfolio.precious_metals
        other == portfolio.other
        metals_after == portfolio'.precious_metals
        other_after == portfolio'.other
    IN  /\ (last'.op = "hard_assets_add" /\ now' # now /\ last'.saved)
              => \/ /\ Len(metals_after) = Len(metals) + 1
                    /\ metals_after = Append(metals, metals_after[Len(metals_after)])
                    /\ other_after = other
                    /\ metals_after[Len(metals_after)].type
                          \in {"gold", "silver", "platinum", "palladium"}
                 \/ /\ Len(other_after) = Len(other) + 1
                    /\ other_after = Append(other, other_after[Len(other_after)])
                    /\ metals_after = metals
                    /\ other_after[Len(other_after)].type
                          \notin {"gold", "silver", "platinum", "palladium"}
        /\ ~(Len(metals_after) > Len(metals) /\ Len(other_after) < Len(other))
        /\ ~(Len(metals_after) < Len(metals) /\ Len(other_after) > Len(other))
        /\ Len(metals_after) = Len(metals)
              => \A i \in 1..Len(metals) : metals_after[i].type = metals[i].type
        /\ Len(other_after) = Len(other)
              => \A i \in 1..Len(other) : other_after[i].type = other[i].type

\* C18: in every ledger reached by hard-assets add, remove and update, the holdings of
\* precious_metals are tagged gold, silver, platinum or palladium and the holdings of
\* other are not; add files the new holding under precious_metals exactly when its tag
\* is one of the four; no operation moves a holding from one sequence to the other.
C18_CategoryFollowsTag == []TagsMatchCategory /\ [][FiledByTag]_vars

\* a precious-metal holding and an "other" holding, both entered through the "other"
\* menu entry with the typed tags gold and Gold, after an update pass
C18_Witness ==
    /\ last.op = "hard_assets_update"
    /\ \E i \in 1..Len(portfolio.precious_metals) :
          portfolio.precious_metals[i].name = "Bar" /\ portfolio.precious_metals[i].type = "gold"
    /\ \E i \in 1..Len(portfolio.other) : portfolio.other[i].type = "Gold"

---------------------------------------------------------------------------
(* update *)

\* C13: when the top-level update has completed, every crypto holding whose price
\* lookup succeeds holds the fetched current_price and every precious-metal holding
\* whose spot lookup succeeds holds the fetched current_spot_price.
C13_UpdateRefreshesPrices ==
    last.op = "update"
        => /\ \A i \in 1..Len(portfolio.crypto) :
                 out.crypto_prices[i] # None
                    => portfolio.crypto[i].current_price = out.crypto_prices[i][1]
           /\ \A i \in 1..Len(portfolio.precious_metals) :
                 out.spot[i] # None
                    => portfolio.precious_metals[i].current_spot_price = out.spot[i][1]

---------------------------------------------------------------------------
(* crypto add *)

\* C23: a crypto add whose search term the identifier search does not resolve (no
\* match or a search error: search_crypto_id returns no identifier) appends no holding
\* and does not rewrite the persisted ledger.
C23_UnresolvedAddChangesNothing ==
    [][\A quantity \in Quantities, fetched \in CryptoPrices :
          crypto_add(None, quantity, 0, fetched)
              => (portfolio' = portfolio /\ ~last'.saved)]_vars

\* an unresolved crypto add returned on a ledger that already had a holding
C23_Witness ==
    /\ last.op = "crypto_add" /\ last.outcome = "not_found"
    /\ portfolio.crypto # <<>>

\* C24: a crypto add with a resolved identifier appends exactly one holding at the end
\* of the crypto sequence and saves, whatever the price fetch gives: the holding has
\* the fetched price, or the price 0 when the fetch failed.
C24_ResolvedAddAppends ==
    [][\A found \in SearchResults \ {None}, quantity \in Quantities, fetched \in CryptoPrices :
          crypto_add(found, quantity, 0, fetched)
              => LET n == Len(portfolio.crypto)
                 IN  /\ Len(portfolio'.crypto) = n + 1
                     /\ SubSeq(portfolio'.crypto, 1, n) = portfolio.crypto
                     /\ portfolio'.crypto[n + 1].symbol = found[1].id
                     /\ portfolio'.crypto[n + 1].name = found[1].name
                     /\ portfolio'.crypto[n + 1].quantity = quantity
                     /\ portfolio'.crypto[n + 1].current_price =
                           IF fetched = None THEN 0 ELSE fetched[1]
                     /\ [portfolio' EXCEPT !.crypto = <<>>] = [portfolio EXCEPT !.crypto = <<>>]
                     /\ last'.saved]_vars

\* a crypto add whose price fetch failed appended a holding with price 0 after a
\* holding that was added with a fetched price
C24_Witness ==
    /\ last.op = "crypto_add" /\ last.outcome = "ok"
    /\ Len(portfolio.crypto) = 2
    /\ portfolio.crypto[1].current_price = 1
    /\ portfolio.crypto[2].current_price = 0
    /\ portfolio.crypto[2].last_updated = now - 1

---------------------------------------------------------------------------
(* cash update *)

\* the amount a flag stands for, 0 when it is missing
FlagAmount(flag) == IF flag = None THEN 0 ELSE flag[1]

RECURSIVE SumAdded(_)
SumAdded(run) == IF run = <<>> THEN 0 ELSE FlagAmount(run[1][1]) + SumAdded(Tail(run))

RECURSIVE SumSubtracted(_)
SumSubtracted(run) == IF run = <<>> THEN 0 ELSE FlagAmount(run[1][2]) + SumSubtracted(Tail(run))

\* C25: a cash update with --add a and/or --subtract s sets the balance to the old
\* balance + a - s (a missing flag counts as 0, both flags net), is saved whatever the
\* sign of the result, and leaves the currency and every holding unchanged; a run of
\* such updates leaves the balance at the starting balance plus the sum of the added
\* amounts minus the sum of the subtracted amounts.
C25_CashUpdateArithmetic ==
    /\ [][\A delta \in CashFlags, subtract \in CashFlags :
             (<<delta, subtract>> # <<None, None>> /\ cash_update(delta, subtract, "add", 0))
                 => /\ portfolio'.cash.balance =
                          portfolio.cash.balance + FlagAmount(delta) - FlagAmount(subtract)
                    /\ [portfolio' EXCEPT !.cash.balance = 0] =
                          [portfolio EXCEPT !.cash.balance = 0]
                    /\ last'.outcome = "ok" /\ last'.saved]_vars
    /\ [](\A run \in CashRuns :
             BalanceAfter(portfolio.cash.balance, run) =
                 portfolio.cash.balance + SumAdded(run) - SumSubtracted(run))

\* a cash update was saved with a balance below zero on a ledger that holds crypto and
\* hard assets
C25_Witness ==
    /\ last.op = "cash_update" /\ last.saved
    /\ portfolio.cash.balance < 0
    /\ portfolio.crypto # <<>> /\ portfolio.other # <<>>
    /\ now = MaxCommands

---------------------------------------------------------------------------
(* convert_to_ounces *)

\* the spellings of the gram units in every mix of case the calls use
GramSpellings == {"g", "G", "gram", "Gram", "grams", "Grams", "GRAMS"}

\* C26: convert_to_ounces(q, u) returns q / 31.1034768 when u is g, gram or grams in
\* any case and q unchanged for every other unit ("oz" and unrecognised units
\* included); it returns for every unit; converting an already converted quantity
\* with unit "oz" returns it unchanged. For whole quantities the amount in OzDen-ths
\* used by the valuations is the same quantity.
C26_ConvertToOunces ==
    /\ out.kind = "convert_to_ounces"
         => /\ out.result = IF out.unit \in GramSpellings
                            THEN Ratio(out.quantity.num * OzNum, out.quantity.den * OzDen)
                            ELSE out.quantity
            /\ out.unit = "oz" => out.result = out.quantity
            /\ out.quantity.den = 1
                 => convert_to_ounces(out.quantity.num, out.unit) =
                      out.result.num * (OzDen \div out.result.den)
    /\ \A quantity \in -1..2, unit \in UnitSpellings :
          convert_to_ounces_exact(convert_to_ounces_exact(Ratio(quantity, 1), unit), "oz") =
              convert_to_ounces_exact(Ratio(quantity, 1), unit)

\* a quantity that came out of a gram conversion was converted again with unit "oz"
C26_Witness ==
    /\ out.kind = "convert_to_ounces"
    /\ out.unit = "oz"
    /\ out.quantity.den = OzDen
    /\ out.quantity.num = 2 * OzNum
    /\ out.result = out.quantity

---------------------------------------------------------------------------
(* show: subtotals of the hard assets *)

\* quantity * price of every holding of s, in OzDen-ths, grams converted when convert
ValueOf(s, convert) ==
    Sum([i \in 1..Len(s) |->
            (IF convert /\ s[i].unit \in GramSpellings
             THEN s[i].quantity * OzNum
             ELSE s[i].quantity * OzDen) * s[i].current_spot_price])

\* C27: in show, the precious-metal subtotal is the sum of convert_to_ounces(quantity,
\* unit) * current_spot_price over the precious metals, and the other subtotal is the
\* sum of quantity * current_spot_price over the other hard assets with no unit
\* conversion, also for a holding counted in grams; the Hard Assets row shows their sum.
C27_HardAssetSubtotals ==
    out.kind = "show"
        => /\ metals_value(portfolio) = ValueOf(portfolio.precious_metals, TRUE)
           /\ other_value(portfolio) = ValueOf(portfolio.other, FALSE)
           /\ \A i \in 1..Len(out.rows) :
                 out.rows[i].label = "Hard Assets"
                     => out.rows[i].value = ValueOf(portfolio.precious_metals, TRUE)
                                              + ValueOf(portfolio.other, FALSE)

\* show printed a Hard Assets row for a precious metal and an other asset that are both
\* counted in grams
C27_Witness ==
    /\ out.kind = "show"
    /\ \E i \in 1..Len(out.rows) : out.rows[i].label = "Hard Assets"
    /\ \E i \in 1..Len(portfolio.precious_metals) :
          /\ portfolio.precious_metals[i].unit \in GramSpellings
          /\ portfolio.precious_metals[i].quantity * portfolio.precious_metals[i].current_spot_price > 0
    /\ \E i \in 1..Len(portfolio.other) :
          /\ portfolio.other[i].unit \in GramSpellings
          /\ portfolio.other[i].quantity * portfolio.other[i].current_spot_price > 0

\* C28: the values show_detailed prints agree with the summary: the values of all
\* hard-asset rows sum to the hard-assets subtotal of show, and the values of all
\* crypto rows sum to the crypto subtotal.
C28_DetailAgreesWithSummary ==
    (out.kind = "show" /\ out.detailed # None)
        => LET d == out.detailed[1]
           IN  /\ Sum([i \in 1..Len(d.hard_assets) |-> d.hard_assets[i].value]) =
                     hard_assets_value(portfolio)
               /\ Sum([i \in 1..Len(d.crypto) |-> d.crypto[i].value]) =
                     crypto_value(portfolio)

---------------------------------------------------------------------------
(* remove *)

\* the sequence s without its k-th element
Without(s, k) == SubSeq(s, 1, k - 1) \o SubSeq(s, k + 1, Len(s))

\* what crypto remove has to do with the selection k
CryptoRemoveEffect(k) ==
    IF portfolio.crypto # <<>> /\ k \in 1..Len(portfolio.crypto)
    THEN /\ portfolio' = [portfolio EXCEPT !.crypto = Without(portfolio.crypto, k)]
         /\ last'.saved
    ELSE portfolio' = portfolio /\ ~last'.saved

\* what hard-assets remove has to do with the selection k: the listing is the precious
\* metals followed by the other assets
HardAssetsRemoveEffect(k) ==
    LET metals == portfolio.precious_metals
        listed == metals \o portfolio.other
    IN  IF listed # <<>> /\ k \in 1..Len(listed)
        THEN /\ portfolio'.precious_metals \o portfolio'.other = Without(listed, k)
             /\ Len(portfolio'.precious_metals) =
                   IF k <= Len(metals) THEN Len(metals) - 1 ELSE Len(metals)
             /\ portfolio'.crypto = portfolio.crypto
             /\ portfolio'.cash = portfolio.cash
             /\ last'.saved
        ELSE portfolio' = portfolio /\ ~last'.saved

\* C22: crypto remove and hard-assets remove reject a selection outside 1..N (0 and
\* negative numbers included) without changing or saving the ledger, and with a
\* selection k in 1..N remove the k-th listed holding and keep all others in order.
C22_RemoveBySelection ==
    [][\A k \in RemoveChoices :
          /\ crypto_remove(k) => CryptoRemoveEffect(k)
          /\ hard_assets_remove(k) => HardAssetsRemoveEffect(k)]_vars

\* after a crypto holding was removed, hard-assets remove took the second of three
\* listed assets, the first of two "other" assets, and left the rest in order
C22_Witness ==
    /\ last.op = "hard_assets_remove" /\ last.saved
    /\ Len(portfolio.crypto) = 1 /\ portfolio.crypto[1].symbol = "ethereum"
    /\ Len(portfolio.precious_metals) = 1
    /\ Len(portfolio.other) = 1 /\ portfolio.other[1].unit = "g"

---------------------------------------------------------------------------
(* Persistence *)

\* C19: the ledger file always holds either the complete document the command in
\* progress (or the last one) loaded or the complete document it saves, never a part
\* of one; and after a command was interrupted before its save the file holds the
\* document the command loaded.
C19_FileIsBeforeOrAfter ==
    /\ portfolio \in {cmd.before, cmd.mem}
    /\ (last.outcome = "interrupted" /\ ~last.saved) => portfolio = cmd.before

---------------------------------------------------------------------------
(* Metal spot lookup *)

\* C12: a call of get_metals_price on a supported metal with a credential whose fetch
\* fails (network error, HTTP error, no price in the body, malformed price) returns a
\* value other than the one the same call returns when no credential is configured.
C12_UnconfiguredDistinctFromFailure ==
    (/\ last.op = "get_metals_price"
     /\ MetalSymbol(out.metal_type) # None
     /\ out.api_key # ""
     /\ out.response.status # "ok")
        => out.result # get_metals_price(out.metal_type, "", out.response)

---------------------------------------------------------------------------
(* Robinhood adapter: the session *)

\* a raw position whose symbol lookup and price lookup both give a value
Priced(p) == p.symbol # None /\ p.latest # None

\* C17: when get_portfolio_data returns without error, the returned positions are the
\* fetched positions whose symbol and price lookups succeeded, in their order, each
\* with its quantity and price, and total_equity is the sum of quantity * price over
\* the returned positions.
C17_FailedPositionsDropped ==
    (rh.pc = "returned" /\ rh.result[1].error = "None")
        => LET kept == SelectSeq(rh.fetched, Priced)
               result == rh.result[1]
           IN  /\ Len(result.positions) = Len(kept)
               /\ \A i \in 1..Len(kept) :
                     /\ result.positions[i].symbol = kept[i].symbol[1]
                     /\ result.positions[i].quantity = kept[i].quantity
                     /\ result.positions[i].price = kept[i].latest[1]
               /\ result.total_equity =
                     Sum([i \in 1..Len(result.positions) |->
                            result.positions[i].quantity * result.positions[i].price])

\* the adapter returned without error after a position whose price lookup failed was
\* followed by one that was priced
C17_Witness ==
    /\ rh.pc = "returned" /\ rh.result[1].error = "None"
    /\ Len(rh.fetched) = 2
    /\ ~Priced(rh.fetched[1]) /\ Priced(rh.fetched[2])
    /\ Len(rh.result[1].positions) = 1
    /\ rh.result[1].total_equity = 2

\* C8: when get_portfolio_data returns after r.login succeeded, it has called
\* r.logout.
C8_LogoutAfterLogin ==
    (rh.pc = "returned" /\ rh.logged_in) => rh.logout_calls >= 1

====
